---- MODULE Spec2Model ----
(***************************************************************************)
(* Model of the polling loop of funpay-client: FunPayPoller::start and the *)
(* functions it calls (src/src/client/poller.rs), the cursor store         *)
(* (src/src/storage) and the gateway outcomes it reacts to                 *)
(* (src/src/client/http.rs).                                               *)
(*                                                                         *)
(* The remote site is the environment: srv[c] is the number of messages    *)
(* chat c holds (their ids are 1..srv[c]); every response is drawn from    *)
(* what the site can answer at that moment.                                *)
(***************************************************************************)
EXTENDS Integers, Sequences, FiniteSets, TLC

\* ------------------------------------------------------------------ bounds
\* Largest message id a chat can reach.
MaxMsg == 2
\* Number of cycles of a run that are counted (where the cycles are counted).
MaxCycles == 2
\* Largest capacity the event bus is created with.
MaxCap == 3
\* Events sent beyond the capacity of the bus.
Extra == 5

\* ---------------------------------------------------------------- universe
Chats == {1, 2}
Orders == {"O1", "O2"}

\* models/enums.rs: OrderStatus
OrderStatus == {"Paid", "Closed", "Refunded"}

\* error.rs: the FunPayError variants a gateway call can return
GatewayErrors == {"Unauthorized", "RequestFailed"}

VARIABLES
    pc,                 \* position of start(): "load", "phaseA", "retry", "history",
                        \* "persist", "orders", "sleep"
    first,              \* poller.rs:47  let mut first
    last_messages,      \* poller.rs:33  ChatBaseline: chat -> node_msg_id
    last_messages_ids,  \* poller.rs:34  MessageCursor: chat -> message id
    saved_orders,       \* poller.rs:35  OrderBaseline: order -> status
    changed_chats,      \* poller.rs:72  chats handed to fetch_chats_histories
    persist_required,   \* poller.rs:77
    last_msg_event_tag, \* poller.rs:31  tag of the chat_bookmarks subscription
    last_order_event_tag, \* poller.rs:32  tag of the orders_counters subscription
    store,              \* the StateStorage contents (survive a restart)
    srv,                \* remote site: chat -> number of messages
    scn,                \* the scenario: which chats and orders the site has, which chats
                        \* get messages, what is observed
    evs,                \* events sent on events_tx in the current cycle, in order
    err,                \* the error the failed phase-a post_runner returned
    saves,              \* storage.save calls made in the current cycle
    cycle,              \* index of the current cycle of the run (counted where logged)
    log,                \* (cycle, type) of the events sent in the latest two cycles, in order
    loaded,             \* the map the startup load of this run returned
    got,                \* the history response of the current cycle
    startMsgs,          \* srv when the current run started
    sent,               \* chat -> message ids sent as NewMessage in this run
    sentBefore,         \* chat -> message ids sent as NewMessage in earlier runs
    savesOk,            \* no storage.save call of this run has failed
    savesOkBefore,      \* every cursor change of the earlier runs was saved: no save
                        \* failed and none was still due when the run stopped
    snap,               \* what the current cycle received: the order map, whether the order
                        \* fetch succeeded, and (where observed) the chat list
    prev,               \* what the previous completed cycle of this run received
    bus,                \* account.rs:112  the broadcast channel: the events it holds and,
                        \* per receiver handle, how many of them the handle has yet to read
                        \* and how many it lost
    obs,                \* per receiver handle: when it was created and what its receives
                        \* returned
    echoed,             \* per subscription: the latest tag a multiplex response of the run
                        \* carried for it
    twin,               \* a second run fed the same responses with other tags: its stored
                        \* tags, and whether it has done the same as this run so far
    acct                \* the account: which of its session fields are set, whether a
                        \* bootstrap succeeded, what the last call on it returned

\* the program's own state
prog == <<pc, first, last_messages, last_messages_ids, saved_orders, changed_chats,
          persist_required, last_msg_event_tag, last_order_event_tag, store>>
\* what is observed of one cycle
seen == <<evs, err, saves, got, snap>>
\* what is observed of a run and of the runs before it
hist == <<cycle, log, loaded, startMsgs, sent, sentBefore, savesOk, savesOkBefore, prev>>

\* the event bus and what its subscribers saw, and the tags the responses carried
chan == <<bus, obs, echoed, twin, acct>>

vars == <<prog, srv, scn, seen, hist, chan>>

\* --------------------------------------------------------------- helpers
EmptyMap == [x \in {} |-> 0]

Put(f, k, v) == [x \in (DOMAIN f) \cup {k} |-> IF x = k THEN v ELSE f[x]]

Range(s) == {s[i] : i \in DOMAIN s}

RECURSIVE SetMax(_)
SetMax(S) == LET x == CHOOSE y \in S : TRUE
             IN  IF S = {x} THEN x
                 ELSE LET m == SetMax(S \ {x}) IN IF x > m THEN x ELSE m

\* msgs.retain(|m| m.id > last_id)
Retain(msgs, last_id) == SelectSeq(msgs, LAMBDA m : m > last_id)

\* all sequences without repetition over the set S (orders of its subsets)
RECURSIVE Perms(_)
Perms(S) == IF S = {} THEN {<<>>}
            ELSE UNION {{<<x>> \o p : p \in Perms(S \ {x})} : x \in S}

Arrangements(S) == UNION {Perms(T) : T \in SUBSET S}

\* ---------------------------------------------------------------- events
\* events.rs: Event, one record shape for the eight variants
Ev(t, c, m, o, s) == [type |-> t, chat |-> c, msg |-> m, order |-> o, status |-> s]
InitialChat(c, n) == Ev("InitialChat", c, n, "-", "-")
ChatsListChanged == Ev("ChatsListChanged", 0, 0, "-", "-")
LastChatMessageChanged(c, n) == Ev("LastChatMessageChanged", c, n, "-", "-")
NewMessage(c, m) == Ev("NewMessage", c, m, "-", "-")
InitialOrder(o, s) == Ev("InitialOrder", 0, 0, o, s)
OrdersListChanged == Ev("OrdersListChanged", 0, 0, "-", "-")
NewOrder(o, s) == Ev("NewOrder", 0, 0, o, s)
OrderStatusChanged(o, s) == Ev("OrderStatusChanged", 0, 0, o, s)

\* FirstChats with the slip of marking every chat for the history fetch
RECURSIVE FirstChats_MarksAll(_, _)
FirstChats_MarksAll(chats, acc) ==
    IF chats = <<>> THEN acc
    ELSE LET ch == Head(chats)
         IN  FirstChats_MarksAll(Tail(chats),
                 [acc EXCEPT !.events = @ \o <<InitialChat(ch.id, ch.node)>>,
                             !.changed = @ \o <<ch.id>>])

ChatEventTypes == {"InitialChat", "ChatsListChanged", "LastChatMessageChanged", "NewMessage"}
OrderEventTypes == {"OrdersListChanged", "InitialOrder", "NewOrder", "OrderStatusChanged"}
\* ------------------------------------------------- parse_events_from_updates
\* poller.rs:192-198, the first-cycle branch over the parsed chat list:
\* InitialChat for every chat, a history fetch for those with node_msg_id > 0
RECURSIVE FirstChats(_, _)
FirstChats(chats, acc) ==
    IF chats = <<>> THEN acc
    ELSE LET ch == Head(chats)
         IN  FirstChats(Tail(chats),
                 [acc EXCEPT !.events = @ \o <<InitialChat(ch.id, ch.node)>>,
                             !.changed = IF ch.node > 0 THEN @ \o <<ch.id>> ELSE @])

\* DiffChats with the slip of comparing with >= instead of >
RECURSIVE DiffChats_NotBelow(_, _)
DiffChats_NotBelow(chats, acc) ==
    IF chats = <<>> THEN acc
    ELSE LET ch == Head(chats)
             prev0 == IF ch.id \in DOMAIN acc.lm THEN acc.lm[ch.id] ELSE -1
             hit == ch.node >= prev0
         IN  DiffChats_NotBelow(Tail(chats),
                 [acc EXCEPT !.events = IF hit THEN @ \o <<LastChatMessageChanged(ch.id, ch.node)>>
                                              ELSE @,
                             !.changed = IF hit THEN @ \o <<ch.id>> ELSE @,
                             !.lm = Put(@, ch.id, ch.node)])

\* poller.rs:203-217, the loop of the later cycles: compare with the baseline
\* (-1 when the chat has none), then store the new node_msg_id
RECURSIVE DiffChats(_, _)
DiffChats(chats, acc) ==
    IF chats = <<>> THEN acc
    ELSE LET ch == Head(chats)
             prev0 == IF ch.id \in DOMAIN acc.lm THEN acc.lm[ch.id] ELSE -1
             hit == ch.node > prev0
         IN  DiffChats(Tail(chats),
                 [acc EXCEPT !.events = IF hit THEN @ \o <<LastChatMessageChanged(ch.id, ch.node)>>
                                              ELSE @,
                             !.changed = IF hit THEN @ \o <<ch.id>> ELSE @,
                             !.lm = Put(@, ch.id, ch.node)])

\* poller.rs:180-182 and 220-222: a tag the object carries replaces the stored one
NewTag(obj, old) == IF obj.tag # "none" THEN obj.tag ELSE old

\* ParseChatBookmarks with the slip of skipping an object without payload before
\* its tag is stored
ParseChatBookmarks_SkipsBareObject(obj, isFirst, acc) ==
    LET tagged == [acc EXCEPT !.msg_tag = NewTag(obj, @)]
    IN  IF obj.chats = <<>> THEN acc
        ELSE IF isFirst THEN FirstChats(obj.chats, tagged)
        ELSE DiffChats(obj.chats, [tagged EXCEPT !.events = @ \o <<ChatsListChanged>>])

\* poller.rs:179-218, one chat_bookmarks object (an empty html gives no chats)
ParseChatBookmarks(obj, isFirst, acc) ==
    LET tagged == [acc EXCEPT !.msg_tag = NewTag(obj, @)]
    IN  IF obj.chats = <<>> THEN tagged
        ELSE IF isFirst THEN FirstChats(obj.chats, tagged)
        ELSE DiffChats(obj.chats, [tagged EXCEPT !.events = @ \o <<ChatsListChanged>>])

\* poller.rs:219-234, one orders_counters object
ParseOrdersCounters(obj, acc) ==
    [acc EXCEPT !.order_tag = NewTag(obj, @), !.events = @ \o <<OrdersListChanged>>]

\* parse_events_from_updates with the slip of skipping an object whose tag is the
\* stored one, as if it brought nothing new
RECURSIVE parse_events_from_updates_SkipsKnownTag(_, _, _)
parse_events_from_updates_SkipsKnownTag(objects, isFirst, acc) ==
    IF objects = <<>> THEN acc
    ELSE LET obj == Head(objects)
         IN  parse_events_from_updates_SkipsKnownTag(Tail(objects), isFirst,
                 IF obj.type = "chat_bookmarks"
                     THEN IF obj.tag = acc.msg_tag THEN acc
                          ELSE ParseChatBookmarks(obj, isFirst, acc)
                 ELSE IF obj.type = "orders_counters"
                     THEN IF obj.tag = acc.order_tag THEN acc
                          ELSE ParseOrdersCounters(obj, acc)
                 ELSE acc)

\* poller.rs:165-241, the loop over the objects of the response
RECURSIVE parse_events_from_updates(_, _, _)
parse_events_from_updates(objects, isFirst, acc) ==
    IF objects = <<>> THEN acc
    ELSE LET obj == Head(objects)
         IN  parse_events_from_updates(Tail(objects), isFirst,
                 IF obj.type = "chat_bookmarks"
                     THEN ParseChatBookmarks(obj, isFirst, acc)
                 ELSE IF obj.type = "orders_counters"
                     THEN ParseOrdersCounters(obj, acc)
                 ELSE acc)

\* ------------------------------------------------------------ the remote site
\* parse_chat_bookmarks (poller.rs:243-284): the chat list of a chat_bookmarks
\* object, some chats of the site in some order, each with its latest message id
ChatLists ==
    {[i \in DOMAIN p |-> [id |-> p[i], node |-> srv[p[i]]]] : p \in Arrangements(scn.chats)}

\* the objects of a multiplex response (poller.rs:172-178): the two subscriptions,
\* either of them possibly missing, in either order
Updates ==
    LET T == scn.tags \cup {"none"}
        OC == {[type |-> "orders_counters", tag |-> t, chats |-> <<>>] : t \in T}
        CB == {[type |-> "chat_bookmarks", tag |-> t, chats |-> l] : t \in T, l \in ChatLists}
    IN  {<<>>}
        \cup {<<oc>> : oc \in OC}
        \cup {<<cb>> : cb \in CB}
        \cup {<<oc, cb>> : oc \in OC, cb \in CB}
        \cup {<<cb, oc>> : oc \in OC, cb \in CB}

\* the chat list an updates value carries, as chat -> node_msg_id
ChatsOf(objects) ==
    LET S == {objects[i].chats : i \in {j \in DOMAIN objects : objects[j].type = "chat_bookmarks"}}
        l == IF S = {} THEN <<>> ELSE CHOOSE x \in S : TRUE
    IN  [c \in {l[i].id : i \in DOMAIN l} |-> (CHOOSE ch \in Range(l) : ch.id = c).node]

\* fetch_chats_histories (poller.rs:294-352): the message list returned for chat c,
\* some of the chat's messages in some order, each id at most once
MessageLists == Arrangements(1..MaxMsg)
HistoryLists(c) == {l \in MessageLists : \A i \in DOMAIN l : l[i] <= srv[c]}

\* the history responses for the chats asked for
RECURSIVE Histories(_)
Histories(asked) ==
    IF asked = {} THEN {EmptyMap}
    ELSE LET c == CHOOSE x \in asked : TRUE
         IN  {Put(h, c, l) : h \in Histories(asked \ {c}), l \in HistoryLists(c)}

\* parse_orders_list (orders.rs:10-145) collected into new_map (poller.rs:110-113)
OrderMaps == UNION {[S -> OrderStatus] : S \in SUBSET scn.orders}

\* ------------------------------------------------------------- the twin run
\* account.rs:282-283: the twin drew other startup tokens
NoTwin == [msg_tag |-> "random2", order_tag |-> "random2", same |-> TRUE]

\* the tag the twin's response carries where this run's response carries t: another
\* one, or none
OtherTag(t) == IF t = "none" THEN "a" ELSE IF t = "a" THEN "b" ELSE "none"

\* the response of the twin: the same objects with other tags
Retag(objects) == [i \in DOMAIN objects |-> [objects[i] EXCEPT !.tag = OtherTag(@)]]

\* poller.rs:72 in the twin: the same call on the twin's response and the twin's
\* stored tags, from the same baseline; same: events, history-fetch set and
\* baseline came out as in this run, now and before
TwinParse(updates) ==
    LET start(mt, ot) == [events |-> <<>>, changed |-> <<>>, lm |-> last_messages,
                          msg_tag |-> mt, order_tag |-> ot]
        mine == parse_events_from_updates(updates, first,
                    start(last_msg_event_tag, last_order_event_tag))
        its == parse_events_from_updates(Retag(updates), first,
                    start(twin.msg_tag, twin.order_tag))
    IN  [msg_tag |-> its.msg_tag, order_tag |-> its.order_tag,
         same |-> /\ twin.same
                  /\ its.events = mine.events
                  /\ its.changed = mine.changed
                  /\ its.lm = mine.lm]

\* ------------------------------------------------------------------- state
NoSnapshot == [ok |-> FALSE, chats |-> EmptyMap, orders |-> EmptyMap]
NoHistory == [ok |-> FALSE, lists |-> EmptyMap]
NoneSent == [c \in Chats |-> {}]

Watches == {"log", "got", "start", "sent", "snap", "bus", "recv", "tags", "twin", "account"}

\* ---------------------------------------------------------------- the account
\* account.rs:118-131: a new account has no identity, CSRF token, username or
\* session cookie
NoAccount == [id |-> "none", csrf_token |-> "none", username |-> "none",
              phpsessid |-> "none", booted |-> FALSE, result |-> "none"]

\* an account after init() succeeded
ReadyAccount == [id |-> "some", csrf_token |-> "some", username |-> "some",
                 phpsessid |-> "some", booted |-> TRUE, result |-> "none"]

\* the ways get() fails: the gateway call, the app data, the missing user name
BootstrapErrors == {"RequestFailed", "Parse", "Unauthorized"}

\* account.rs:282-283: a new poller starts with a random_tag() for each subscription
NoEcho == [order |-> "random", msg |-> "random", bare |-> FALSE]

\* the tags the objects of a multiplex response carry, the later object of a type
\* over the earlier; bare: the latest tagged chat_bookmarks object had no payload
RECURSIVE Echo(_, _)
Echo(objects, acc) ==
    IF objects = <<>> THEN acc
    ELSE LET obj == Head(objects)
         IN  Echo(Tail(objects),
                 IF obj.tag = "none" THEN acc
                 ELSE IF obj.type = "orders_counters" THEN [acc EXCEPT !.order = obj.tag]
                 ELSE IF obj.type = "chat_bookmarks"
                     THEN [acc EXCEPT !.msg = obj.tag, !.bare = (obj.chats = <<>>)]
                 ELSE acc)

\* ---------------------------------------------------------------- event bus
\* The channel holds the latest scn.cap events sent; a receiver handle knows how
\* many of them it has yet to read and how many events it lost.
NoBus == [held |-> <<>>, subs |-> EmptyMap]
NewHandle == [unread |-> 0, missed |-> 0]

Min(a, b) == IF a <= b THEN a ELSE b

\* the last k elements of a sequence
LastOf(q, k) == IF Len(q) <= k THEN q ELSE SubSeq(q, Len(q) - k + 1, Len(q))

\* BusSendOne with the slip of turning the new event away when the channel is full
BusSendOne_DropsNewest(b, e) ==
    IF DOMAIN b.subs = {} \/ Len(b.held) >= scn.cap THEN b
    ELSE [held |-> b.held \o <<e>>,
          subs |-> [h \in DOMAIN b.subs |-> [b.subs[h] EXCEPT !.unread = @ + 1]]]

\* one send: with no receiver the event is dropped; otherwise it is stored, the
\* oldest stored event giving way when the channel is full, and a handle that
\* had yet to read that oldest event loses it
BusSendOne(b, e) ==
    IF DOMAIN b.subs = {} THEN b
    ELSE [held |-> LastOf(b.held \o <<e>>, scn.cap),
          subs |-> [h \in DOMAIN b.subs |->
                       IF b.subs[h].unread < scn.cap
                           THEN [b.subs[h] EXCEPT !.unread = @ + 1]
                           ELSE [b.subs[h] EXCEPT !.missed = Min(@ + 1, scn.lagCap)]]]

RECURSIVE BusSend(_, _)
BusSend(b, events) ==
    IF events = <<>> THEN b
    ELSE BusSend(BusSendOne(b, Head(events)), Tail(events))

\* what a receive returns, and how many events had been sent when it returned
Lagged(n, at) == [kind |-> "lagged", n |-> n, at |-> at, ev |-> ChatsListChanged]
Received(e, at) == [kind |-> "event", n |-> 0, at |-> at, ev |-> e]

\* the state after account.rs:267-287 built the poller, before start() runs
InitIn(scenario) ==
    /\ scn = scenario
    /\ pc = IF "account" \in scenario.watch THEN "idle" ELSE "load"
    /\ first = TRUE
    /\ last_messages = EmptyMap
    /\ last_messages_ids = EmptyMap
    /\ saved_orders = EmptyMap
    /\ changed_chats = <<>>
    /\ persist_required = FALSE
    /\ last_msg_event_tag = "random"
    /\ last_order_event_tag = "random"
    /\ store = EmptyMap
    /\ srv \in [Chats -> 0..MaxMsg]
    /\ \A c \in Chats \ scn.busy : srv[c] = 0
    /\ evs = <<>>
    /\ err = "none"
    /\ saves = 0
    /\ cycle = 0
    /\ log = <<>>
    /\ loaded = EmptyMap
    /\ got = NoHistory
    /\ startMsgs = IF "start" \in scn.watch THEN srv ELSE [c \in Chats |-> 0]
    /\ sent = NoneSent
    /\ sentBefore = NoneSent
    /\ savesOk = TRUE
    /\ savesOkBefore = TRUE
    /\ snap = NoSnapshot
    /\ prev = NoSnapshot
    /\ bus = NoBus
    /\ obs = EmptyMap
    /\ echoed = NoEcho
    /\ twin = NoTwin
    /\ acct = IF "account" \in scenario.watch THEN NoAccount ELSE ReadyAccount

\* Send with the slip of putting the new events ahead of the ones already sent
Send_Prepends(new, n) ==
    /\ evs' = new \o evs
    /\ bus' = IF "bus" \in scn.watch THEN BusSend(bus, new) ELSE bus
    /\ log' = IF "log" \in scn.watch
                  THEN [i \in DOMAIN new |-> [cycle |-> n, type |-> new[i].type]]
                       \o SelectSeq(log, LAMBDA x : x.cycle >= n - 1)
                  ELSE log

\* Send with the slip of waiting until every receiver has room for the events
Send_WaitsForRoom(new, n) ==
    /\ \A h \in DOMAIN bus.subs : bus.subs[h].unread + Len(new) <= scn.cap
    /\ evs' = evs \o new
    /\ bus' = IF "bus" \in scn.watch THEN BusSend(bus, new) ELSE bus
    /\ log' = IF "log" \in scn.watch
                  THEN SelectSeq(log, LAMBDA x : x.cycle >= n - 1)
                       \o [i \in DOMAIN new |-> [cycle |-> n, type |-> new[i].type]]
                  ELSE log

\* events_tx.send of each event of new, in order, the result of each send
\* dropped (poller.rs:73-75, 93, 116-135)
Send(new, n) ==
    /\ evs' = evs \o new
    /\ bus' = IF "bus" \in scn.watch THEN BusSend(bus, new) ELSE bus
    /\ log' = IF "log" \in scn.watch
                  THEN SelectSeq(log, LAMBDA x : x.cycle >= n - 1)
                       \o [i \in DOMAIN new |-> [cycle |-> n, type |-> new[i].type]]
                  ELSE log

\* a new attempt of the loop body begins (poller.rs:48)
BeginCycle ==
    /\ "log" \in scn.watch => cycle < MaxCycles
    /\ cycle' = IF "log" \in scn.watch THEN cycle + 1 ELSE cycle

\* ------------------------------------------------------------ the remote site
\* a message arrives in chat c
ServerNewMessage(c) ==
    /\ srv[c] < MaxMsg
    /\ srv' = [srv EXCEPT ![c] = @ + 1]
    /\ UNCHANGED <<prog, scn, seen, hist>>
    /\ UNCHANGED chan

\* ----------------------------------------------------------------- start()
\* poller.rs:354-358 load_last_messages_ids succeeds, then poller.rs:47 first = true
LoadOk ==
    /\ pc = "load"
    /\ last_messages_ids' = store
    /\ loaded' = IF "got" \in scn.watch THEN store ELSE loaded
    /\ first' = TRUE
    /\ pc' = "phaseA"
    /\ UNCHANGED <<last_messages, saved_orders, changed_chats, persist_required,
                   last_msg_event_tag, last_order_event_tag, store>>
    /\ UNCHANGED <<srv, scn, seen>>
    /\ UNCHANGED <<cycle, log, startMsgs, sent, sentBefore, savesOk, savesOkBefore, prev>>
    /\ UNCHANGED chan

\* poller.rs:359-361, the load fails: log only, the cursor stays empty
LoadErr ==
    /\ pc = "load"
    /\ first' = TRUE
    /\ pc' = "phaseA"
    /\ UNCHANGED <<last_messages, last_messages_ids, saved_orders, changed_chats,
                   persist_required, last_msg_event_tag, last_order_event_tag, store>>
    /\ UNCHANGED <<srv, scn, seen, hist>>
    /\ UNCHANGED chan

\* PostRunnerErr with the slip of clearing the first-cycle flag on the failure path
PostRunnerErr_ClearsFirst(e) ==
    /\ pc = "phaseA"
    /\ BeginCycle
    /\ pc' = "retry"
    /\ err' = e
    /\ first' = FALSE
    /\ UNCHANGED <<last_messages, last_messages_ids, saved_orders, changed_chats,
                   persist_required, last_msg_event_tag, last_order_event_tag, store>>
    /\ UNCHANGED <<srv, scn, evs, saves, got, snap>>
    /\ UNCHANGED <<log, loaded, startMsgs, sent, sentBefore, savesOk, savesOkBefore, prev>>
    /\ UNCHANGED chan

\* PostRunnerErr with the slip of leaving the loop when the session is rejected
PostRunnerErr_ReturnsUnauthorized(e) ==
    /\ pc = "phaseA"
    /\ BeginCycle
    /\ pc' = IF e = "Unauthorized" THEN "returned" ELSE "retry"
    /\ err' = e
    /\ UNCHANGED <<first, last_messages, last_messages_ids, saved_orders, changed_chats,
                   persist_required, last_msg_event_tag, last_order_event_tag, store>>
    /\ UNCHANGED <<srv, scn, evs, saves, got, snap>>
    /\ UNCHANGED <<log, loaded, startMsgs, sent, sentBefore, savesOk, savesOkBefore, prev>>
    /\ UNCHANGED chan

\* poller.rs:63-70, post_runner fails: log, sleep error_retry_delay, continue
PostRunnerErr(e) ==
    /\ pc = "phaseA"
    /\ BeginCycle
    /\ pc' = "retry"
    /\ err' = e
    /\ UNCHANGED <<first, last_messages, last_messages_ids, saved_orders, changed_chats,
                   persist_required, last_msg_event_tag, last_order_event_tag, store>>
    /\ UNCHANGED <<srv, scn, evs, saves, got, snap>>
    /\ UNCHANGED <<log, loaded, startMsgs, sent, sentBefore, savesOk, savesOkBefore, prev>>
    /\ UNCHANGED chan

\* poller.rs:67-68, the retry delay ends and the loop starts over
RetrySleep ==
    /\ pc = "retry"
    /\ pc' = "phaseA"
    /\ err' = "none"
    /\ UNCHANGED <<first, last_messages, last_messages_ids, saved_orders, changed_chats,
                   persist_required, last_msg_event_tag, last_order_event_tag, store>>
    /\ UNCHANGED <<srv, scn, evs, saves, got, snap, hist>>
    /\ UNCHANGED chan

\* poller.rs:63-78, post_runner succeeds: parse_events_from_updates, send its
\* events, persist_required = false, then the history fetch when a chat changed
PostRunnerOk(updates) ==
    /\ pc = "phaseA"
    /\ BeginCycle
    /\ LET r == parse_events_from_updates(updates, first,
                    [events |-> <<>>, changed |-> <<>>, lm |-> last_messages,
                     msg_tag |-> last_msg_event_tag, order_tag |-> last_order_event_tag])
       IN  /\ Send(r.events, cycle')
           /\ changed_chats' = r.changed
           /\ last_messages' = r.lm
           /\ last_msg_event_tag' = r.msg_tag
           /\ last_order_event_tag' = r.order_tag
           /\ pc' = IF r.changed # <<>> THEN "history" ELSE "orders"
    /\ persist_required' = FALSE
    /\ snap' = IF "snap" \in scn.watch THEN [snap EXCEPT !.chats = ChatsOf(updates)] ELSE snap
    /\ UNCHANGED <<first, last_messages_ids, saved_orders, store>>
    /\ UNCHANGED <<srv, scn, err, saves, got>>
    /\ UNCHANGED <<loaded, startMsgs, sent, sentBefore, savesOk, savesOkBefore, prev>>
    /\ UNCHANGED <<obs, acct>>
    /\ echoed' = IF "tags" \in scn.watch THEN Echo(updates, echoed) ELSE echoed
    /\ twin' = IF "twin" \in scn.watch THEN TwinParse(updates) ELSE twin

\* ProcessHistory with the slip of sending the messages on the first cycle too
ProcessHistory_SendsOnFirst(cid, msgs, isFirst, acc) ==
    LET hasLast == cid \in DOMAIN acc.ids
        kept == IF hasLast THEN Retain(msgs, acc.ids[cid]) ELSE msgs
        max_id == SetMax(Range(kept))
    IN  [ids |-> IF kept # <<>> THEN Put(acc.ids, cid, max_id) ELSE acc.ids,
         persist |-> IF kept # <<>> /\ (~hasLast \/ acc.ids[cid] # max_id)
                         THEN TRUE ELSE acc.persist,
         events |-> acc.events \o [i \in DOMAIN kept |-> NewMessage(cid, kept[i])]]

\* ProcessHistory with the slip of taking the last message of the list for the
\* newest one
ProcessHistory_CursorToLast(cid, msgs, isFirst, acc) ==
    LET hasLast == cid \in DOMAIN acc.ids
        kept == IF hasLast THEN Retain(msgs, acc.ids[cid]) ELSE msgs
        max_id == IF kept # <<>> THEN kept[Len(kept)] ELSE 0
    IN  [ids |-> IF kept # <<>> THEN Put(acc.ids, cid, max_id) ELSE acc.ids,
         persist |-> IF kept # <<>> /\ (~hasLast \/ acc.ids[cid] # max_id)
                         THEN TRUE ELSE acc.persist,
         events |-> IF ~isFirst
                        THEN acc.events \o [i \in DOMAIN kept |-> NewMessage(cid, kept[i])]
                        ELSE acc.events]

\* ProcessHistory with the slip of asking for a save only when the chat had no cursor
ProcessHistory_DirtyOnlyWhenNew(cid, msgs, isFirst, acc) ==
    LET hasLast == cid \in DOMAIN acc.ids
        kept == IF hasLast THEN Retain(msgs, acc.ids[cid]) ELSE msgs
        max_id == SetMax(Range(kept))
    IN  [ids |-> IF kept # <<>> THEN Put(acc.ids, cid, max_id) ELSE acc.ids,
         persist |-> IF kept # <<>> /\ ~hasLast THEN TRUE ELSE acc.persist,
         events |-> IF ~isFirst
                        THEN acc.events \o [i \in DOMAIN kept |-> NewMessage(cid, kept[i])]
                        ELSE acc.events]

\* ProcessHistory with the slip of not dropping the messages the cursor covers
ProcessHistory_KeepsOld(cid, msgs, isFirst, acc) ==
    LET hasLast == cid \in DOMAIN acc.ids
        kept == msgs
        max_id == SetMax(Range(kept))
    IN  [ids |-> IF kept # <<>> THEN Put(acc.ids, cid, max_id) ELSE acc.ids,
         persist |-> IF kept # <<>> /\ (~hasLast \/ acc.ids[cid] # max_id)
                         THEN TRUE ELSE acc.persist,
         events |-> IF ~isFirst
                        THEN acc.events \o [i \in DOMAIN kept |-> NewMessage(cid, kept[i])]
                        ELSE acc.events]

\* poller.rs:81-96, one chat of the history response: drop what the cursor covers,
\* move the cursor to the largest id left, send the rest unless first
ProcessHistory(cid, msgs, isFirst, acc) ==
    LET hasLast == cid \in DOMAIN acc.ids
        kept == IF hasLast THEN Retain(msgs, acc.ids[cid]) ELSE msgs
        max_id == SetMax(Range(kept))
    IN  [ids |-> IF kept # <<>> THEN Put(acc.ids, cid, max_id) ELSE acc.ids,
         persist |-> IF kept # <<>> /\ (~hasLast \/ acc.ids[cid] # max_id)
                         THEN TRUE ELSE acc.persist,
         events |-> IF ~isFirst
                        THEN acc.events \o [i \in DOMAIN kept |-> NewMessage(cid, kept[i])]
                        ELSE acc.events]

\* poller.rs:81 for (cid, msgs) in histories.drain(), in the order the map yields
RECURSIVE DrainHistories(_, _, _, _)
DrainHistories(order, histories, isFirst, acc) ==
    IF order = <<>> THEN acc
    ELSE DrainHistories(Tail(order), histories, isFirst,
             ProcessHistory(Head(order), histories[Head(order)], isFirst, acc))

\* the message ids the NewMessage events of a sequence carry for chat c
NewMessagesOf(events, c) ==
    {events[i].msg : i \in {j \in DOMAIN events : events[j].type = "NewMessage" /\ events[j].chat = c}}

\* poller.rs:78-97, fetch_chats_histories succeeds
HistoryOk(histories, order) ==
    /\ pc = "history"
    /\ LET r == DrainHistories(order, histories, first,
                    [ids |-> last_messages_ids, persist |-> persist_required, events |-> <<>>])
       IN  /\ last_messages_ids' = r.ids
           /\ persist_required' = r.persist
           /\ Send(r.events, cycle)
           /\ sent' = IF "sent" \in scn.watch
                          THEN [c \in Chats |-> sent[c] \cup NewMessagesOf(r.events, c)]
                          ELSE sent
           /\ pc' = IF r.persist THEN "persist" ELSE "orders"
    /\ got' = IF "got" \in scn.watch THEN [ok |-> TRUE, lists |-> histories] ELSE got
    /\ UNCHANGED <<first, last_messages, saved_orders, changed_chats, last_msg_event_tag,
                   last_order_event_tag, store>>
    /\ UNCHANGED <<srv, scn, err, saves, snap>>
    /\ UNCHANGED <<cycle, loaded, startMsgs, sentBefore, savesOk, savesOkBefore, prev>>
    /\ UNCHANGED <<obs, echoed, twin, acct>>

\* HistoryErr with the slip of giving the cycle up: straight to the sleep
HistoryErr_EndsCycle ==
    /\ pc = "history"
    /\ pc' = "sleep"
    /\ UNCHANGED <<first, last_messages, last_messages_ids, saved_orders, changed_chats,
                   persist_required, last_msg_event_tag, last_order_event_tag, store>>
    /\ UNCHANGED <<srv, scn, seen, hist>>
    /\ UNCHANGED chan

\* poller.rs:98-100, fetch_chats_histories fails: log only
HistoryErr ==
    /\ pc = "history"
    /\ pc' = IF persist_required THEN "persist" ELSE "orders"
    /\ UNCHANGED <<first, last_messages, last_messages_ids, saved_orders, changed_chats,
                   persist_required, last_msg_event_tag, last_order_event_tag, store>>
    /\ UNCHANGED <<srv, scn, seen, hist>>
    /\ UNCHANGED chan

\* poller.rs:104-106 and 365-369 with storage/memory.rs:31-34, json.rs:28-37:
\* save writes the whole map
PersistOk ==
    /\ pc = "persist"
    /\ store' = last_messages_ids
    /\ saves' = saves + 1
    /\ pc' = "orders"
    /\ UNCHANGED <<first, last_messages, last_messages_ids, saved_orders, changed_chats,
                   persist_required, last_msg_event_tag, last_order_event_tag>>
    /\ UNCHANGED <<srv, scn, evs, err, got, snap, hist>>
    /\ UNCHANGED chan

\* PersistErr with the slip of taking the cursor back to what the store holds
PersistErr_RollsBack ==
    /\ pc = "persist"
    /\ saves' = saves + 1
    /\ savesOk' = IF "sent" \in scn.watch THEN FALSE ELSE savesOk
    /\ last_messages_ids' = store
    /\ pc' = "orders"
    /\ UNCHANGED <<first, last_messages, saved_orders, changed_chats,
                   persist_required, last_msg_event_tag, last_order_event_tag, store>>
    /\ UNCHANGED <<srv, scn, evs, err, got, snap>>
    /\ UNCHANGED <<cycle, log, loaded, startMsgs, sent, sentBefore, savesOkBefore, prev>>
    /\ UNCHANGED chan

\* poller.rs:366-368, save fails: log only
PersistErr ==
    /\ pc = "persist"
    /\ saves' = saves + 1
    /\ savesOk' = IF "sent" \in scn.watch THEN FALSE ELSE savesOk
    /\ pc' = "orders"
    /\ UNCHANGED <<first, last_messages, last_messages_ids, saved_orders, changed_chats,
                   persist_required, last_msg_event_tag, last_order_event_tag, store>>
    /\ UNCHANGED <<srv, scn, evs, err, got, snap>>
    /\ UNCHANGED <<cycle, log, loaded, startMsgs, sent, sentBefore, savesOkBefore, prev>>
    /\ UNCHANGED chan

\* DiffOrder with the slip of leaving out the follow-up of an order first seen Closed
DiffOrder_NoFollowUp(id, status, baseline) ==
    IF id \in DOMAIN baseline
        THEN IF baseline[id] # status THEN <<OrderStatusChanged(id, status)>> ELSE <<>>
        ELSE <<NewOrder(id, status)>>

\* DiffOrder with the slip of announcing a known order again when its status moves
DiffOrder_NewOrderAgain(id, status, baseline) ==
    IF id \in DOMAIN baseline /\ baseline[id] = status
        THEN <<>>
        ELSE <<NewOrder(id, status)>>
             \o (IF status = "Closed" \/ id \in DOMAIN baseline
                     THEN <<OrderStatusChanged(id, status)>> ELSE <<>>)

\* poller.rs:121-137, one order of new_map against a non-empty baseline
DiffOrder(id, status, baseline) ==
    IF id \in DOMAIN baseline
        THEN IF baseline[id] # status THEN <<OrderStatusChanged(id, status)>> ELSE <<>>
        ELSE <<NewOrder(id, status)>>
             \o (IF status = "Closed" THEN <<OrderStatusChanged(id, status)>> ELSE <<>>)

\* OrderEvents with the slip of tying InitialOrder to the first cycle instead of
\* the empty baseline
RECURSIVE OrderEvents_InitialOnFirstCycle(_, _, _)
OrderEvents_InitialOnFirstCycle(order, new_map, baseline) ==
    IF order = <<>> THEN <<>>
    ELSE LET id == Head(order)
         IN  (IF first
                  THEN <<InitialOrder(id, new_map[id])>>
                  ELSE DiffOrder(id, new_map[id], baseline))
             \o OrderEvents_InitialOnFirstCycle(Tail(order), new_map, baseline)

\* poller.rs:114-139, the events of a fetched map, visited in the order the map yields
RECURSIVE OrderEvents(_, _, _)
OrderEvents(order, new_map, baseline) ==
    IF order = <<>> THEN <<>>
    ELSE LET id == Head(order)
         IN  (IF baseline = EmptyMap
                  THEN <<InitialOrder(id, new_map[id])>>
                  ELSE DiffOrder(id, new_map[id], baseline))
             \o OrderEvents(Tail(order), new_map, baseline)

\* FetchSalesOk with the slip of merging the fetched map into the baseline
FetchSalesOk_Merges(new_map, order) ==
    /\ pc = "orders"
    /\ Send(OrderEvents(order, new_map, saved_orders), cycle)
    /\ saved_orders' = [o \in DOMAIN saved_orders \cup DOMAIN new_map |->
                            IF o \in DOMAIN new_map THEN new_map[o] ELSE saved_orders[o]]
    /\ first' = FALSE
    /\ pc' = "sleep"
    /\ snap' = [snap EXCEPT !.ok = TRUE, !.orders = new_map]
    /\ UNCHANGED <<last_messages, last_messages_ids, changed_chats, persist_required,
                   last_msg_event_tag, last_order_event_tag, store>>
    /\ UNCHANGED <<srv, scn, err, saves, got>>
    /\ UNCHANGED <<cycle, loaded, startMsgs, sent, sentBefore, savesOk, savesOkBefore, prev>>
    /\ UNCHANGED <<obs, echoed, twin, acct>>

\* poller.rs:108-141 and 147, fetch_sales_list succeeds; then first = false
FetchSalesOk(new_map, order) ==
    /\ pc = "orders"
    /\ Send(OrderEvents(order, new_map, saved_orders), cycle)
    /\ saved_orders' = new_map
    /\ first' = FALSE
    /\ pc' = "sleep"
    /\ snap' = [snap EXCEPT !.ok = TRUE, !.orders = new_map]
    /\ UNCHANGED <<last_messages, last_messages_ids, changed_chats, persist_required,
                   last_msg_event_tag, last_order_event_tag, store>>
    /\ UNCHANGED <<srv, scn, err, saves, got>>
    /\ UNCHANGED <<cycle, loaded, startMsgs, sent, sentBefore, savesOk, savesOkBefore, prev>>
    /\ UNCHANGED <<obs, echoed, twin, acct>>

\* FetchSalesErr with the slip of taking the failure for an empty order list
FetchSalesErr_EmptiesBaseline ==
    /\ pc = "orders"
    /\ first' = FALSE
    /\ pc' = "sleep"
    /\ saved_orders' = EmptyMap
    /\ UNCHANGED <<last_messages, last_messages_ids, changed_chats,
                   persist_required, last_msg_event_tag, last_order_event_tag, store>>
    /\ UNCHANGED <<srv, scn, seen, hist>>
    /\ UNCHANGED chan

\* FetchSalesErr with the slip of going to the sleep before the flag is cleared
FetchSalesErr_KeepsFirst ==
    /\ pc = "orders"
    /\ pc' = "sleep"
    /\ UNCHANGED <<first, last_messages, last_messages_ids, saved_orders, changed_chats,
                   persist_required, last_msg_event_tag, last_order_event_tag, store>>
    /\ UNCHANGED <<srv, scn, seen, hist>>
    /\ UNCHANGED chan

\* poller.rs:142-147, fetch_sales_list fails: log only; then first = false
FetchSalesErr ==
    /\ pc = "orders"
    /\ first' = FALSE
    /\ pc' = "sleep"
    /\ UNCHANGED <<last_messages, last_messages_ids, saved_orders, changed_chats,
                   persist_required, last_msg_event_tag, last_order_event_tag, store>>
    /\ UNCHANGED <<srv, scn, seen, hist>>
    /\ UNCHANGED chan

\* poller.rs:148, the polling interval ends and the loop starts over
Sleep ==
    /\ pc = "sleep"
    /\ pc' = "phaseA"
    /\ evs' = <<>>
    /\ saves' = 0
    /\ got' = NoHistory
    /\ prev' = IF "snap" \in scn.watch THEN snap ELSE prev
    /\ snap' = NoSnapshot
    /\ UNCHANGED <<first, last_messages, last_messages_ids, saved_orders, changed_chats,
                   persist_required, last_msg_event_tag, last_order_event_tag, store>>
    /\ UNCHANGED <<srv, scn, err>>
    /\ UNCHANGED <<cycle, log, loaded, startMsgs, sent, sentBefore, savesOk, savesOkBefore>>
    /\ UNCHANGED chan

\* account.rs:266-289, the process stops and start_polling_loop builds a new
\* poller over the same storage: empty baselines and cursor, then start()
Restart ==
    /\ acct.id # "none"
    /\ acct.csrf_token # "none"
    /\ pc' = "load"
    /\ first' = TRUE
    /\ last_messages' = EmptyMap
    /\ last_messages_ids' = EmptyMap
    /\ saved_orders' = EmptyMap
    /\ changed_chats' = <<>>
    /\ persist_required' = FALSE
    /\ last_msg_event_tag' = "random"
    /\ last_order_event_tag' = "random"
    /\ evs' = <<>>
    /\ err' = "none"
    /\ saves' = 0
    /\ got' = NoHistory
    /\ snap' = NoSnapshot
    /\ prev' = NoSnapshot
    /\ cycle' = 0
    /\ log' = <<>>
    /\ loaded' = EmptyMap
    /\ startMsgs' = IF "start" \in scn.watch THEN srv ELSE startMsgs
    /\ sentBefore' = [c \in Chats |-> sentBefore[c] \cup sent[c]]
    /\ sent' = NoneSent
    /\ savesOkBefore' = IF "sent" \in scn.watch
                          THEN savesOkBefore /\ savesOk /\ pc # "persist"
                          ELSE savesOkBefore
    /\ savesOk' = TRUE
    /\ UNCHANGED <<store, srv, scn, acct>>
    /\ echoed' = NoEcho
    /\ twin' = NoTwin
    /\ bus' = NoBus
    /\ obs' = EmptyMap

\* ----------------------------------------------------------- the subscribers
\* Subscribe with the slip of handing the new handle the events the bus still holds
Subscribe_ReplaysHeld(h) ==
    /\ h \in scn.subs \ DOMAIN bus.subs
    /\ bus' = [bus EXCEPT !.subs = Put(@, h, [unread |-> Len(bus.held), missed |-> 0])]
    /\ obs' = IF "recv" \in scn.watch
                  THEN Put(obs, h, [since |-> Len(evs), results |-> <<>>])
                  ELSE obs
    /\ UNCHANGED <<prog, srv, scn, seen, hist, echoed, twin, acct>>

\* account.rs:134-136 subscribe(): a new receiver handle, with nothing to read
Subscribe(h) ==
    /\ h \in scn.subs \ DOMAIN bus.subs
    /\ bus' = [bus EXCEPT !.subs = Put(@, h, NewHandle)]
    /\ obs' = IF "recv" \in scn.watch
                  THEN Put(obs, h, [since |-> Len(evs), results |-> <<>>])
                  ELSE obs
    /\ UNCHANGED <<prog, srv, scn, seen, hist, echoed, twin, acct>>

\* the subscriber drops its handle
Unsubscribe(h) ==
    /\ h \in DOMAIN bus.subs
    /\ bus' = [bus EXCEPT !.subs = [x \in DOMAIN @ \ {h} |-> @[x]]]
    /\ obs' = [x \in DOMAIN obs \ {h} |-> obs[x]]
    /\ UNCHANGED <<prog, srv, scn, seen, hist, echoed, twin, acct>>

\* recv() of a handle returns: the report of the events it lost, if any, else
\* the oldest event it has yet to read; with nothing to read it keeps waiting
Receive(h) ==
    /\ h \in DOMAIN bus.subs
    /\ LET me == bus.subs[h]
           result == IF me.missed > 0
                         THEN Lagged(me.missed, Len(evs))
                         ELSE Received(bus.held[Len(bus.held) - me.unread + 1], Len(evs))
       IN  /\ me.missed > 0 \/ me.unread > 0
           /\ bus' = IF me.missed > 0
                         THEN [bus EXCEPT !.subs[h].missed = 0]
                         ELSE [bus EXCEPT !.subs[h].unread = @ - 1]
           /\ obs' = IF "recv" \in scn.watch
                         THEN [obs EXCEPT ![h].results = @ \o <<result>>]
                         ELSE obs
    /\ UNCHANGED <<prog, srv, scn, seen, hist, echoed, twin, acct>>

\* ----------------------------------------------------------- the account's calls
\* account.rs:159-205 get() succeeds: the cookie when the response set one, then
\* identity, CSRF token and user name together
GetOk(cookie) ==
    /\ pc = "idle"
    /\ acct' = [acct EXCEPT !.phpsessid = IF cookie THEN "some" ELSE @,
                            !.id = "some", !.csrf_token = "some", !.username = "some",
                            !.booted = TRUE, !.result = "ok"]
    /\ UNCHANGED <<prog, srv, scn, seen, hist, bus, obs, echoed, twin>>

\* GetErr with the slip of storing identity and CSRF token before the user name
\* is looked for
GetErr_StoresIdentity(e, cookie) ==
    /\ pc = "idle"
    /\ acct' = [acct EXCEPT !.phpsessid = IF cookie /\ e # "RequestFailed" THEN "some" ELSE @,
                            !.id = IF e = "Unauthorized" THEN "some" ELSE @,
                            !.csrf_token = IF e = "Unauthorized" THEN "some" ELSE @,
                            !.result = e]
    /\ UNCHANGED <<prog, srv, scn, seen, hist, bus, obs, echoed, twin>>

\* account.rs:160-163, 172-181, 194-198: get() fails; a failure after the gateway
\* call has stored the cookie the response set, and nothing else
GetErr(e, cookie) ==
    /\ pc = "idle"
    /\ acct' = [acct EXCEPT !.phpsessid = IF cookie /\ e # "RequestFailed" THEN "some" ELSE @,
                            !.result = e]
    /\ UNCHANGED <<prog, srv, scn, seen, hist, bus, obs, echoed, twin>>

\* account.rs:271-276: start_polling_loop without identity or CSRF token returns
\* AccountNotInitiated before the poller is built
StartPollingLoopErr ==
    /\ pc = "idle"
    /\ acct.id = "none" \/ acct.csrf_token = "none"
    /\ acct' = [acct EXCEPT !.result = "AccountNotInitiated"]
    /\ UNCHANGED <<prog, srv, scn, seen, hist, bus, obs, echoed, twin>>

\* account.rs:266-289: start_polling_loop on an account that has them builds the
\* poller and runs start()
StartPollingLoopOk ==
    /\ pc = "idle"
    /\ Restart

\* account.rs:142-157 create_sender
CreateSender ==
    /\ pc = "idle"
    /\ acct' = [acct EXCEPT !.result = IF acct.csrf_token = "none" \/ acct.id = "none"
                                           THEN "AccountNotInitiated" ELSE "sender"]
    /\ UNCHANGED <<prog, srv, scn, seen, hist, bus, obs, echoed, twin>>

\* an event is sent on the bus (poller.rs:74), scn.sends of them at most: the k-th
\* event sent is the message k
Publish ==
    /\ Len(evs) < scn.sends
    /\ Send(<<NewMessage(1, Len(evs) + 1)>>, 0)
    /\ UNCHANGED <<prog, srv, scn, err, saves, got, snap, obs, echoed, twin, acct>>
    /\ UNCHANGED <<cycle, loaded, startMsgs, sent, sentBefore, savesOk, savesOkBefore, prev>>

Next ==
    \/ \E c \in scn.busy : ServerNewMessage(c)
    \/ LoadOk
    \/ LoadErr
    \/ \E e \in GatewayErrors : PostRunnerErr(e)
    \/ RetrySleep
    \/ \E updates \in Updates : PostRunnerOk(updates)
    \/ \E order \in Perms(Range(changed_chats)) :
           \E histories \in Histories(Range(changed_chats)) : HistoryOk(histories, order)
    \/ HistoryErr
    \/ PersistOk
    \/ PersistErr
    \/ \E new_map \in OrderMaps : \E order \in Perms(DOMAIN new_map) : FetchSalesOk(new_map, order)
    \/ FetchSalesErr
    \/ Sleep
    \/ Restart

\* the steps start() itself takes: every await of the loop returns, so the loop
\* keeps taking them (poller.rs:40-148)
Step ==
    \/ LoadOk
    \/ LoadErr
    \/ \E e \in GatewayErrors : PostRunnerErr(e)
    \/ RetrySleep
    \/ \E updates \in Updates : PostRunnerOk(updates)
    \/ \E order \in Perms(Range(changed_chats)) :
           \E histories \in Histories(Range(changed_chats)) : HistoryOk(histories, order)
    \/ HistoryErr
    \/ PersistOk
    \/ PersistErr
    \/ \E new_map \in OrderMaps : \E order \in Perms(DOMAIN new_map) : FetchSalesOk(new_map, order)
    \/ FetchSalesErr
    \/ Sleep

\* ------------------------------------------------------------ specifications
\* The scenarios differ in what the remote site holds and in what is observed:
\* one chat, two orders, tags in the responses
Spec == InitIn([chats |-> {1}, busy |-> {1}, orders |-> {"O1", "O2"}, tags |-> {"a"}, watch |-> {}])
            /\ [][Next]_vars
\* one chat, no order; the history responses, the messages present at the start
\* and the messages sent are observed
SpecChat == InitIn([chats |-> {1}, busy |-> {1}, orders |-> {}, tags |-> {},
                    watch |-> {"got", "start", "sent"}])
            /\ [][Next]_vars
\* one chat, one order; the snapshot of the previous cycle is observed
SpecSnap == InitIn([chats |-> {1}, busy |-> {1}, orders |-> {"O1"}, tags |-> {}, watch |-> {"snap"}])
            /\ [][Next]_vars
\* one chat, one order; the events of the latest two cycles are logged
SpecLog == InitIn([chats |-> {1}, busy |-> {1}, orders |-> {"O1"}, tags |-> {},
                   watch |-> {"log"}])
            /\ [][Next]_vars
\* two chats, the second of which never holds a message, no order; the chat list
\* of each response is observed
SpecTwo == InitIn([chats |-> {1, 2}, busy |-> {1}, orders |-> {}, tags |-> {},
                   watch |-> {"snap"}])
            /\ [][Next]_vars
\* one chat, one order; the loop keeps running: whichever call it awaits returns
SpecLive == InitIn([chats |-> {1}, busy |-> {1}, orders |-> {"O1"}, tags |-> {},
                    watch |-> {}])
            /\ [][Next]_vars /\ WF_vars(Step)
\* one chat, one order; the history responses are observed
SpecFail == InitIn([chats |-> {1}, busy |-> {1}, orders |-> {"O1"}, tags |-> {},
                    watch |-> {"got"}])
            /\ [][Next]_vars
\* one chat, two orders; the order list of each cycle and of the cycle before it
\* are observed
SpecOrders == InitIn([chats |-> {1}, busy |-> {1}, orders |-> {"O1", "O2"}, tags |-> {},
                      watch |-> {"snap"}])
              /\ [][Next]_vars
\* one chat, no order; the responses carry one of two tags or none, and the
\* tags they carried are observed
SpecTags == InitIn([chats |-> {1}, busy |-> {1}, orders |-> {}, tags |-> {"a", "b"},
                    watch |-> {"tags"}])
            /\ [][Next]_vars
\* one chat, one order; the responses carry one of two tags or none, and a twin
\* run is fed the same responses with other tags
SpecTwin == InitIn([chats |-> {1}, busy |-> {1}, orders |-> {"O1"}, tags |-> {"a", "b"},
                    watch |-> {"twin"}])
            /\ [][Next]_vars
\* the account from its construction on: bootstrap, sender, polling loop
NextAccount ==
    \/ Next
    \/ \E cookie \in BOOLEAN : GetOk(cookie)
    \/ \E e \in BootstrapErrors : \E cookie \in BOOLEAN : GetErr(e, cookie)
    \/ StartPollingLoopErr
    \/ StartPollingLoopOk
    \/ CreateSender

\* one chat, no order; the account starts without a session
SpecAccount == InitIn([chats |-> {1}, busy |-> {1}, orders |-> {}, tags |-> {},
                       watch |-> {"account"}])
               /\ [][NextAccount]_vars
\* one chat, no order; the loop keeps running; the chat list and the history
\* response of each cycle and the messages sent are observed
SpecDeliver == InitIn([chats |-> {1}, busy |-> {1}, orders |-> {}, tags |-> {},
                       watch |-> {"got", "sent", "snap"}])
               /\ [][Next]_vars /\ WF_vars(Step)
\* two chats that both get messages, no order; the history responses are observed
SpecBoth == InitIn([chats |-> {1, 2}, busy |-> {1, 2}, orders |-> {}, tags |-> {},
                    watch |-> {"got"}])
            /\ [][Next]_vars

\* the loop and the subscribers of its bus
NextWithSubscribers ==
    \/ Next
    \/ \E h \in scn.subs : Subscribe(h)
    \/ \E h \in scn.subs : Unsubscribe(h)
    \/ \E h \in scn.subs : Receive(h)

\* the bus alone: events are sent, handles are created, read and dropped
NextBus ==
    \/ Publish
    \/ \E h \in scn.subs : Subscribe(h)
    \/ \E h \in scn.subs : Unsubscribe(h)
    \/ \E h \in scn.subs : Receive(h)

\* one chat, no order, a bus of capacity 1 with one subscriber that comes, reads
\* or does not, and goes; lost events are counted up to 1
SpecSubscribers ==
    InitIn([chats |-> {1}, busy |-> {1}, orders |-> {}, tags |-> {}, watch |-> {"bus"},
            cap |-> 1, subs |-> {1}, lagCap |-> 1])
    /\ [][NextWithSubscribers]_vars

\* a bus of each capacity up to MaxCap with one subscriber, and Extra events
\* more than the bus holds; what each receive returned is observed
SpecBus ==
    (\E k \in 1..MaxCap :
        InitIn([chats |-> {}, busy |-> {}, orders |-> {}, tags |-> {},
                watch |-> {"bus", "recv"}, cap |-> k, subs |-> {1},
                sends |-> k + Extra, lagCap |-> k + Extra]))
    /\ [][NextBus]_vars

\* a bus of each capacity up to MaxCap with two subscribers, and as many events
\* as overflow the largest bus; what each receive returned is observed
SpecBusTwo ==
    (\E k \in 1..MaxCap :
        InitIn([chats |-> {}, busy |-> {}, orders |-> {}, tags |-> {},
                watch |-> {"bus", "recv"}, cap |-> k, subs |-> {1, 2},
                sends |-> MaxCap + 1, lagCap |-> MaxCap + 1]))
    /\ [][NextBus]_vars

\* ------------------------------------------------------------------ claims
\* the events the step sends: evs grows by them within a cycle and is emptied
\* when the cycle ends
Published ==
    IF Len(evs') >= Len(evs) /\ SubSeq(evs', 1, Len(evs)) = evs
        THEN SubSeq(evs', Len(evs) + 1, Len(evs'))
        ELSE evs'

TypesOf(events) == {events[i].type : i \in DOMAIN events}

\* C1: a cycle whose phase-a multiplex fetch fails (the loop goes from the fetch to
\* the retry delay) leaves ChatBaseline, OrderBaseline and MessageCursor as they
\* were, sends no event, does not write the cursor store and keeps the first-cycle
\* flag and both continuation tags.
C1_FailedFetchChangesNothing ==
    [][(pc = "phaseA" /\ pc' = "retry") =>
          /\ last_messages' = last_messages
          /\ saved_orders' = saved_orders
          /\ last_messages_ids' = last_messages_ids
          /\ Published = <<>>
          /\ store' = store
          /\ saves' = saves
          /\ first' = first
          /\ last_msg_event_tag' = last_msg_event_tag
          /\ last_order_event_tag' = last_order_event_tag]_vars

\* C1 witness: a fetch failed in a later cycle, when the baselines, the cursor and
\* the tags all hold values a failed cycle could lose.
C1_Witness ==
    /\ pc = "retry"
    /\ ~first
    /\ last_messages # EmptyMap
    /\ last_messages_ids # EmptyMap
    /\ saved_orders # EmptyMap
    /\ last_msg_event_tag = "a"
    /\ last_order_event_tag = "a"

\* C7: when the phase-a multiplex fetch fails with Unauthorized the loop stops and
\* start returns the error: the engine is never in the retry delay after it.
C7_UnauthorizedStopsTheLoop ==
    err = "Unauthorized" => pc = "returned"

\* C3: while the first-cycle flag is set no step sends a NewMessage or a
\* LastChatMessageChanged event, whatever the snapshot, the history response and
\* the loaded cursor are.
C3_FirstCycleSendsNoMessageEvent ==
    [][first => TypesOf(Published) \cap {"NewMessage", "LastChatMessageChanged"} = {}]_vars

\* C3 witness: on the first cycle of a run that loaded a cursor, the history
\* response held messages above the cursor (the cursor moved and a save is due).
C3_Witness ==
    /\ first
    /\ pc = "persist"
    /\ store # EmptyMap
    /\ last_messages_ids # store
    /\ TypesOf(evs) = {"InitialChat"}

\* the message ids of the NewMessage events a sequence carries for chat c, in order
MsgIds(events, c) ==
    LET s == SelectSeq(events, LAMBDA e : e.type = "NewMessage" /\ e.chat = c)
    IN  [i \in DOMAIN s |-> s[i].msg]

IsAscending(l) == \A i, j \in DOMAIN l : i < j => l[i] < l[j]

\* C2: after a restart that loaded the cursor value c for a chat, a history
\* response for that chat (ids ascending, the cursor entry still c) publishes
\* exactly the returned ids above c as NewMessage, in that order, and leaves the
\* cursor at the largest returned id (or at c when nothing is above it).
C2_RestartPublishesAboveLoadedCursor ==
    [][(pc = "history" /\ got'.ok) =>
          \A c \in DOMAIN got'.lists \cap DOMAIN loaded :
              (IsAscending(got'.lists[c]) /\ last_messages_ids[c] = loaded[c]) =>
                  /\ MsgIds(Published, c) = Retain(got'.lists[c], loaded[c])
                  /\ last_messages_ids'[c] = SetMax(Range(got'.lists[c]) \cup {loaded[c]})]_vars

\* C4: no NewMessage event carries a message that was in its chat when the run
\* began.
C4_StartupHistoryIsNeverNew ==
    \A i \in DOMAIN evs :
        evs[i].type = "NewMessage" => evs[i].msg > startMsgs[evs[i].chat]

\* C5: a completed cycle whose snapshot equals the snapshot of the completed
\* cycle before it has published no LastChatMessageChanged and no
\* OrderStatusChanged event.
C5_IdenticalSnapshotIsSilent ==
    (/\ pc = "sleep"
     /\ prev.ok /\ snap.ok
     /\ snap.chats = prev.chats
     /\ snap.orders = prev.orders)
        => TypesOf(evs) \cap {"LastChatMessageChanged", "OrderStatusChanged"} = {}

\* C6: a step publishes no message id twice, none that this run has published
\* for the chat before, and, when every save of the earlier runs succeeded, none
\* that an earlier run published for the chat.
C6_NoMessagePublishedTwice ==
    [][\A i \in DOMAIN Published :
          Published[i].type = "NewMessage" =>
              /\ Published[i].msg \notin sent[Published[i].chat]
              /\ savesOkBefore => Published[i].msg \notin sentBefore[Published[i].chat]
              /\ \A j \in DOMAIN Published :
                     (j # i /\ Published[j].type = "NewMessage"
                            /\ Published[j].chat = Published[i].chat)
                         => Published[j].msg # Published[i].msg]_vars

\* NewOrder for o is directly followed by OrderStatusChanged for o in events
FollowedUp(events, o) ==
    \E i \in DOMAIN events :
        /\ i + 1 \in DOMAIN events
        /\ events[i] = NewOrder(o, "Closed")
        /\ events[i + 1] = OrderStatusChanged(o, "Closed")

\* C8 as stated: every Closed order of a fetched list that the OrderBaseline has
\* no entry for gets NewOrder directly followed by OrderStatusChanged.
C8_ClosedNewcomerGetsBoth ==
    [][(pc = "orders" /\ snap'.ok) =>
          \A o \in DOMAIN snap'.orders :
              (o \notin DOMAIN saved_orders /\ snap'.orders[o] = "Closed")
                  => FollowedUp(Published, o)]_vars

\* C8 amended: when the OrderBaseline is not empty, every Closed order of a
\* fetched list that the OrderBaseline has no entry for gets NewOrder directly
\* followed by OrderStatusChanged in the events of that step.
C8_ClosedNewcomerGetsBothUnlessEmpty ==
    [][(pc = "orders" /\ snap'.ok /\ saved_orders # EmptyMap) =>
          \A o \in DOMAIN snap'.orders :
              (o \notin DOMAIN saved_orders /\ snap'.orders[o] = "Closed")
                  => FollowedUp(Published, o)]_vars

\* C8 witness: a cycle ended in which a Closed newcomer got both events while
\* another order of the same list got its own.
C8_Witness ==
    /\ pc = "sleep"
    /\ snap.ok
    /\ ~first
    /\ \E o \in DOMAIN snap.orders :
           /\ FollowedUp(evs, o)
           /\ \E i \in DOMAIN evs : evs[i].order \in DOMAIN snap.orders \ {o}

\* the events of a sequence that are about order o
EventsOf(events, o) == SelectSeq(events, LAMBDA e : e.order = o)

\* C9: for an order the OrderBaseline knows, a fetched list showing another
\* status yields exactly one OrderStatusChanged and nothing else for it, and a
\* list showing the same status yields no event for it.
C9_KnownOrderDiff ==
    [][(pc = "orders" /\ snap'.ok) =>
          \A o \in DOMAIN snap'.orders \cap DOMAIN saved_orders :
              EventsOf(Published, o) =
                  IF saved_orders[o] # snap'.orders[o]
                      THEN <<OrderStatusChanged(o, snap'.orders[o])>>
                      ELSE <<>>]_vars

\* C9 witness: a cycle ended in which one known order changed status and got its
\* single OrderStatusChanged while another known order kept its status and got
\* nothing.
C9_Witness ==
    /\ pc = "sleep"
    /\ snap.ok
    /\ \E o, q \in DOMAIN snap.orders :
           /\ o # q
           /\ EventsOf(evs, o) = <<OrderStatusChanged(o, snap.orders[o])>>
           /\ EventsOf(evs, q) = <<>>

\* no entry of types B comes before an entry of types A of the same cycle, and
\* the cycle numbers never go down
PhaseOrder(A, B) ==
    \A i, j \in DOMAIN log :
        i < j =>
            /\ log[i].cycle <= log[j].cycle
            /\ log[i].cycle = log[j].cycle
                   => ~(log[i].type \in B /\ log[j].type \in A)

\* C10 as stated: within a cycle every chat event precedes every order event,
\* OrdersListChanged included, and the cycles follow one another.
C10_ChatEventsBeforeOrderEvents == PhaseOrder(ChatEventTypes, OrderEventTypes)

\* C10 amended: within a cycle every chat event precedes every InitialOrder,
\* NewOrder and OrderStatusChanged event (OrdersListChanged is sent with the chat
\* events of the multiplex response, in the order the response lists them), and
\* every event of a cycle precedes every event of the next.
C10_ChatEventsBeforeOrderDiffEvents ==
    PhaseOrder(ChatEventTypes, OrderEventTypes \ {"OrdersListChanged"})

\* C10 witness: the log holds a cycle with OrdersListChanged, then a chat event,
\* then an event of the order diff, after an event of the cycle before.
C10_Witness ==
    \E h, i, j, k \in DOMAIN log :
        /\ h < i /\ i < j /\ j < k
        /\ log[h].cycle < log[i].cycle
        /\ log[i].cycle = log[k].cycle
        /\ log[i].type = "OrdersListChanged"
        /\ log[j].type = "NewMessage"
        /\ log[k].type \in OrderEventTypes \ {"OrdersListChanged"}

\* the number of places of a sequence that hold e
Count(events, e) == Cardinality({i \in DOMAIN events : events[i] = e})

\* C11: the first-cycle step that parses a response publishes exactly one
\* InitialChat for every chat of the response's list and none for any other
\* chat, and hands to the history fetch exactly the chats whose node_msg_id is
\* above zero, each once.
C11_FirstCycleInitialChats ==
    [][(pc = "phaseA" /\ pc' \in {"history", "orders"} /\ first) =>
          /\ \A c \in DOMAIN snap'.chats :
                 Count(Published, InitialChat(c, snap'.chats[c])) = 1
          /\ \A i \in DOMAIN Published :
                 Published[i].type = "InitialChat" => Published[i].chat \in DOMAIN snap'.chats
          /\ Range(changed_chats') = {c \in DOMAIN snap'.chats : snap'.chats[c] > 0}
          /\ Len(changed_chats') = Cardinality(Range(changed_chats'))]_vars

\* C11 witness: the first cycle received a chat with messages and a chat without,
\* published InitialChat for both and asks for the history of the first only.
C11_Witness ==
    /\ first
    /\ pc = "history"
    /\ DOMAIN snap.chats = {1, 2}
    /\ snap.chats[1] > 0 /\ snap.chats[2] = 0
    /\ Count(evs, InitialChat(1, snap.chats[1])) = 1
    /\ Count(evs, InitialChat(2, 0)) = 1
    /\ changed_chats = <<1>>

\* the positions of the loop of start()
LoopPositions == {"load", "phaseA", "retry", "history", "persist", "orders", "sleep"}

\* C12: start never returns, and whatever the phases of a cycle ended with, the
\* loop comes back to the multiplex fetch and leaves it again, over and over.
C12_LoopNeverEnds ==
    /\ [](pc \in LoopPositions)
    /\ []<>(pc = "phaseA")
    /\ []<>(pc # "phaseA")

\* C12 witness: after a completed cycle the multiplex fetch was rejected as
\* Unauthorized and the loop waits to try again.
C12_Witness == pc = "retry" /\ err = "Unauthorized" /\ ~first

\* C13: in every state, whatever the bus holds and whatever its subscribers did,
\* each step of the loop that sends events can be taken for each response the
\* step can get; and a step of a subscriber changes nothing of the loop, of its
\* baselines and cursor, of the store or of the events sent.
C13_PublishingNeverWaits ==
    /\ [](/\ pc = "phaseA" => \A updates \in Updates : ENABLED PostRunnerOk(updates)
          /\ pc = "history" =>
                 \A order \in Perms(Range(changed_chats)) :
                     \A histories \in Histories(Range(changed_chats)) :
                         ENABLED HistoryOk(histories, order)
          /\ pc = "orders" =>
                 \A new_map \in OrderMaps : \A order \in Perms(DOMAIN new_map) :
                     ENABLED FetchSalesOk(new_map, order))
    /\ [][(bus' # bus /\ evs' = evs /\ pc' = pc)
              => UNCHANGED <<prog, srv, seen, hist>>]_vars

\* C13 witness: the loop is about to send the messages of a history response
\* while the bus is full of events its subscriber has not read and has lost some.
C13_Witness ==
    /\ pc = "history"
    /\ ~first
    /\ 1 \in DOMAIN bus.subs
    /\ bus.subs[1].unread = scn.cap
    /\ bus.subs[1].missed > 0

\* C14: when a subscriber's first receive comes after more events than the bus
\* holds were sent since it subscribed (scn.cap + Extra of them in particular),
\* that receive reports the lost events, which are the oldest ones, all but the
\* latest scn.cap; the receives after it return those latest scn.cap events, oldest
\* first, for as long as no further loss is reported.
C14_SlowSubscriberLosesTheOldest ==
    \A h \in DOMAIN obs :
        LET r == obs[h].results
            since == obs[h].since
        IN  (r # <<>> /\ r[1].at - since > scn.cap) =>
                /\ r[1].kind = "lagged"
                /\ r[1].n = r[1].at - since - scn.cap
                /\ \A j \in 2..Len(r) :
                       (\A i \in 2..j : r[i].kind = "event")
                           => r[j].ev = evs[r[1].at - scn.cap + j - 1]

\* C14 witness: a bus of the largest capacity, scn.cap + Extra events sent before
\* the subscriber's first receive, which reported Extra lost events, and the
\* scn.cap receives after it returned the rest, down to the latest event.
C14_Witness ==
    /\ scn.cap = MaxCap
    /\ 1 \in DOMAIN obs
    /\ LET r == obs[1].results
       IN  /\ Len(r) = scn.cap + 1
           /\ r[1] = Lagged(Extra, scn.cap + Extra)
           /\ r[Len(r)].kind = "event"
           /\ r[Len(r)].ev = evs[scn.cap + Extra]

\* the places, among the events sent, of the events a handle was handed, in the
\* order it was handed them (the k-th event sent is the message k)
ReceivedPlaces(r) ==
    LET got_events == SelectSeq(r, LAMBDA x : x.kind = "event")
    IN  [i \in DOMAIN got_events |-> got_events[i].ev.msg]

\* C15: a subscriber is handed events in the order they were sent, and only
\* events sent after it subscribed; while no loss was reported to it and it is at
\* most scn.cap events behind, it was handed the events sent since it subscribed
\* one by one with none left out, and the rest are waiting for it; an event sent
\* while no subscriber exists is not kept for anybody.
C15_EachSubscriberInOrderFromItsStart ==
    /\ [](\A h \in DOMAIN obs :
            LET r == obs[h].results
                since == obs[h].since
                places == ReceivedPlaces(r)
                behind == Len(evs) - since - Len(r)
            IN  /\ \A i \in DOMAIN places : places[i] > since /\ places[i] <= Len(evs)
                /\ \A i, j \in DOMAIN places : i < j => places[i] < places[j]
                /\ (\A i \in DOMAIN r : r[i].kind = "event" /\ r[i].at - since - (i - 1) <= scn.cap)
                     /\ behind <= scn.cap
                       => /\ \A i \in DOMAIN r : r[i].ev = evs[since + i]
                          /\ bus.subs[h].missed = 0
                          /\ bus.subs[h].unread = behind
                          /\ behind > 0 => ENABLED Receive(h))
    /\ [][(DOMAIN bus.subs = {} /\ Len(evs') > Len(evs)) => bus' = bus]_vars

\* C15 witness: two subscribers that subscribed at different times after the
\* first event was sent, each handed two events or more without a loss, the
\* first of them being the first event sent after it subscribed.
C15_Witness ==
    /\ DOMAIN obs = {1, 2}
    /\ obs[1].since = 1
    /\ obs[2].since = 2
    /\ \A h \in {1, 2} :
           /\ Len(obs[h].results) >= 2
           /\ \A i \in DOMAIN obs[h].results : obs[h].results[i].kind = "event"
           /\ obs[h].results[1].ev = evs[obs[h].since + 1]

\* the ChatBaseline node_msg_id of a chat, -1 when the chat has no entry
BaselineOf(lm, c) == IF c \in DOMAIN lm THEN lm[c] ELSE -1

\* C16: on a cycle that is not the first, a chat of the snapshot gets one
\* LastChatMessageChanged and a place in the history-fetch set exactly when its
\* node_msg_id is above its baseline (-1 without one), and neither otherwise;
\* afterwards the baseline of every chat of the snapshot is the snapshot's value
\* and the other entries are as before; one ChatsListChanged is sent, ahead of
\* these events, when the snapshot has a chat, and none when it has no chat.
C16_LaterCyclesDiffAgainstBaseline ==
    [][(pc = "phaseA" /\ pc' \in {"history", "orders"} /\ ~first) =>
          LET chats == snap'.chats
              isLCMC(e) == e.type = "LastChatMessageChanged"
          IN  /\ \A c \in DOMAIN chats :
                    IF chats[c] > BaselineOf(last_messages, c)
                        THEN /\ Count(Published, LastChatMessageChanged(c, chats[c])) = 1
                             /\ Count(changed_chats', c) = 1
                        ELSE /\ \A i \in DOMAIN Published :
                                    isLCMC(Published[i]) => Published[i].chat # c
                             /\ c \notin Range(changed_chats')
              /\ \A i \in DOMAIN Published : isLCMC(Published[i]) =>
                    /\ Published[i].chat \in DOMAIN chats
                    /\ Published[i].msg = chats[Published[i].chat]
              /\ Range(changed_chats') \subseteq DOMAIN chats
              /\ DOMAIN last_messages' = DOMAIN last_messages \cup DOMAIN chats
              /\ \A c \in DOMAIN last_messages' :
                    last_messages'[c] = IF c \in DOMAIN chats THEN chats[c] ELSE last_messages[c]
              /\ Count(Published, ChatsListChanged) = IF DOMAIN chats # {} THEN 1 ELSE 0
              /\ \A i, j \in DOMAIN Published :
                    (Published[i] = ChatsListChanged /\ isLCMC(Published[j])) => i < j]_vars

\* C16 witness: a later cycle whose snapshot has both chats, one above its
\* baseline (announced and to be fetched) and one not (neither), the baseline
\* holding the snapshot's values.
C16_Witness ==
    /\ pc = "history"
    /\ ~first
    /\ DOMAIN snap.chats = {1, 2}
    /\ changed_chats = <<1>>
    /\ Count(evs, LastChatMessageChanged(1, snap.chats[1])) = 1
    /\ Count(evs, ChatsListChanged) = 1
    /\ \A i \in DOMAIN evs : evs[i].type = "LastChatMessageChanged" => evs[i].chat = 1
    /\ last_messages = snap.chats

\* C17: the step of a successful history fetch leaves, for every chat returned
\* with list L: without a cursor and L not empty, the cursor at the largest id of
\* L; with cursor p and an id of L above p, the cursor at the largest id of L;
\* otherwise the cursor as it was; the cursors of the other chats are as they
\* were. On the first cycle the step does the same and sends nothing.
C17_CursorMovesToLargestNewId ==
    [][(pc = "history" /\ pc' # "history" /\ got'.ok) =>
          /\ \A c \in DOMAIN got'.lists :
                LET L == Range(got'.lists[c])
                    p == last_messages_ids[c]
                IN  IF c \notin DOMAIN last_messages_ids
                        THEN IF L # {}
                                 THEN c \in DOMAIN last_messages_ids'
                                      /\ last_messages_ids'[c] = SetMax(L)
                                 ELSE c \notin DOMAIN last_messages_ids'
                        ELSE /\ c \in DOMAIN last_messages_ids'
                             /\ last_messages_ids'[c] =
                                    IF \E m \in L : m > p THEN SetMax(L) ELSE p
          /\ \A c \in Chats \ DOMAIN got'.lists :
                IF c \in DOMAIN last_messages_ids
                    THEN c \in DOMAIN last_messages_ids'
                         /\ last_messages_ids'[c] = last_messages_ids[c]
                    ELSE c \notin DOMAIN last_messages_ids'
          /\ first => evs' = evs]_vars

\* C17 witness: on a first cycle, a chat with a stored cursor was returned with a
\* list of two messages, the larger first and above the cursor; the cursor is at
\* the larger and nothing was sent for them.
C17_Witness ==
    /\ pc \in {"persist", "orders"}
    /\ first
    /\ got.ok
    /\ 1 \in DOMAIN got.lists
    /\ Len(got.lists[1]) = 2
    /\ got.lists[1][1] > got.lists[1][2]
    /\ 1 \in DOMAIN store
    /\ store[1] < got.lists[1][1]
    /\ last_messages_ids[1] = got.lists[1][1]
    /\ \A i \in DOMAIN evs : evs[i].type # "NewMessage"

\* the history fetch of the running cycle was made and failed: chats were handed
\* to it and no response was taken
HistoryFailed == pc \in {"orders", "sleep"} /\ changed_chats # <<>> /\ ~got.ok

\* C18: the step of a failed history fetch sends nothing, leaves the cursor and
\* the store alone and goes on to the order fetch, past the save; for the rest of
\* that cycle no NewMessage was sent, no save was made and the cursor stays; the
\* order fetch is taken whatever it returns and announces an order it meets for
\* the first time against a filled baseline; at the sleep the first-cycle flag is
\* cleared, and the sleep ends into the next cycle.
C18_HistoryFailureSkipsOnlyTheMessages ==
    /\ [][(pc = "history" /\ pc' # "history" /\ pc' # "load" /\ ~got'.ok) =>
             /\ pc' = "orders"
             /\ evs' = evs
             /\ last_messages_ids' = last_messages_ids
             /\ store' = store
             /\ saves' = saves]_vars
    /\ [](HistoryFailed =>
             /\ \A i \in DOMAIN evs : evs[i].type # "NewMessage"
             /\ saves = 0
             /\ pc = "orders" =>
                   /\ \A new_map \in OrderMaps : \A order \in Perms(DOMAIN new_map) :
                          ENABLED FetchSalesOk(new_map, order)
                   /\ ENABLED FetchSalesErr
             /\ pc = "sleep" => ~first /\ ENABLED Sleep)
    /\ [][(HistoryFailed /\ pc' # "load") =>
             /\ last_messages_ids' = last_messages_ids
             /\ store' = store
             /\ (pc = "orders" /\ pc' # pc) => pc' = "sleep"
             /\ (pc = "sleep" /\ pc' # pc) => pc' = "phaseA"
             /\ (pc = "orders" /\ saved_orders # EmptyMap) =>
                   \A o \in DOMAIN saved_orders' \ DOMAIN saved_orders :
                       Count(Published, NewOrder(o, saved_orders'[o])) = 1]_vars

\* C18 witness: the history fetch of a first cycle failed with a message waiting
\* on the site; the order fetch of that cycle returned an order, which was
\* announced, the flag is cleared, and nothing was saved.
C18_Witness ==
    /\ HistoryFailed
    /\ pc = "sleep"
    /\ srv[1] > 0
    /\ last_messages_ids = EmptyMap
    /\ saved_orders # EmptyMap
    /\ \E i \in DOMAIN evs : evs[i].type = "InitialOrder"
    /\ \E i \in DOMAIN evs : evs[i].type = "InitialChat"
    /\ ~first

\* C19: within a cycle the cursor changes only in the history step, and that step
\* is followed by a save exactly when it changed the cursor of some chat; a
\* cycle makes at most one save, made after the history response was processed
\* and before the order fetch; the store changes only by a save, which writes
\* the whole cursor map.
C19_SaveExactlyWhenCursorChanged ==
    /\ [][(pc' # "load" /\ pc # "load" /\ last_messages_ids' # last_messages_ids)
              => pc = "history"]_vars
    /\ [][(pc = "history" /\ pc' \notin {"history", "load"})
              => (pc' = "persist" <=> last_messages_ids' # last_messages_ids)]_vars
    /\ [][(pc = "persist" /\ pc' \notin {"persist", "load"}) =>
              /\ pc' = "orders"
              /\ saves' = saves + 1
              /\ store' \in {last_messages_ids, store}
              /\ last_messages_ids' = last_messages_ids]_vars
    /\ [][(saves' # saves /\ pc' \notin {"phaseA", "load"}) => pc = "persist"]_vars
    /\ [][store' # store => (pc = "persist" /\ store' = last_messages_ids)]_vars
    /\ [](/\ saves <= 1
          /\ saves = 1 => pc \in {"orders", "sleep"} /\ got.ok
          /\ pc = "persist" => saves = 0 /\ got.ok)

\* C19 witness: on a later cycle the history step moved a cursor that was
\* there, the save was made once and the store holds the whole cursor map, which
\* differs from what the run loaded; the order fetch is still to come.
C19_Witness ==
    /\ pc = "orders"
    /\ ~first
    /\ saves = 1
    /\ got.ok
    /\ store = last_messages_ids
    /\ 1 \in DOMAIN store
    /\ 1 \in DOMAIN loaded
    /\ store[1] > loaded[1]

\* C20: the step of a failed save goes on to the order fetch with the cursor as
\* the history step left it and the store as it was; once a save of the run has
\* failed, the order fetch and the sleep are still taken, the cursor of a chat
\* is at or above every message of it sent as NewMessage in the run, and no
\* later history step of the run sends any of those messages again.
C20_FailedSaveKeepsCursorAndLoop ==
    /\ [][(pc = "persist" /\ savesOk /\ ~savesOk') =>
              /\ pc' = "orders"
              /\ last_messages_ids' = last_messages_ids
              /\ store' = store
              /\ first' = first
              /\ evs' = evs]_vars
    /\ [](~savesOk =>
              /\ pc = "orders" =>
                    /\ \A new_map \in OrderMaps : \A order \in Perms(DOMAIN new_map) :
                           ENABLED FetchSalesOk(new_map, order)
                    /\ ENABLED FetchSalesErr
              /\ pc = "sleep" => ENABLED Sleep
              /\ pc = "phaseA" => \A updates \in Updates : ENABLED PostRunnerOk(updates)
              /\ \A c \in Chats : \A m \in sent[c] :
                    c \in DOMAIN last_messages_ids /\ m <= last_messages_ids[c])
    /\ [][(~savesOk /\ pc = "history" /\ pc' \notin {"history", "load"}) =>
              \A c \in Chats : NewMessagesOf(Published, c) \cap sent[c] = {}]_vars

\* C20 witness: a save of the run failed after a message was sent; a later
\* history response carried that message and a newer one, and only the newer one
\* was sent.
C20_Witness ==
    /\ ~savesOk
    /\ pc = "persist"
    /\ got.ok
    /\ 1 \in DOMAIN got.lists
    /\ \E m \in Range(got.lists[1]) :
           /\ m \in sent[1]
           /\ Count(evs, NewMessage(1, m)) = 0
           /\ \E n \in Range(got.lists[1]) : n > m /\ Count(evs, NewMessage(1, n)) = 1
    /\ (1 \notin DOMAIN store \/ \E m \in sent[1] : store[1] < m)

\* the events of the order diff
OrderDiffTypes == {"InitialOrder", "NewOrder", "OrderStatusChanged"}

\* C21: the step of a successful order fetch that finds the OrderBaseline empty
\* sends one InitialOrder for each order of the fetched map and nothing else, and
\* the events of that cycle hold no NewOrder and no OrderStatusChanged;
\* InitialOrder is sent by no other step and by no step that finds the baseline
\* filled.
C21_InitialOrderIffBaselineEmpty ==
    /\ [][(pc = "orders" /\ pc' = "sleep" /\ snap'.ok /\ saved_orders = EmptyMap) =>
              /\ \A o \in DOMAIN snap'.orders :
                     Count(Published, InitialOrder(o, snap'.orders[o])) = 1
              /\ Len(Published) = Cardinality(DOMAIN snap'.orders)
              /\ \A i \in DOMAIN evs' : evs'[i].type \notin {"NewOrder", "OrderStatusChanged"}]_vars
    /\ [][(\E i \in DOMAIN Published : Published[i].type = "InitialOrder")
              => (pc = "orders" /\ snap'.ok /\ saved_orders = EmptyMap)]_vars

\* C21 witness: a later cycle found the baseline still empty and its fetch returned
\* both orders, one of them Closed; each was sent as InitialOrder.
C21_Witness ==
    /\ pc = "sleep"
    /\ snap.ok
    /\ DOMAIN saved_orders = {"O1", "O2"}
    /\ saved_orders["O1"] = "Closed"
    /\ \E i \in DOMAIN evs : evs[i].type = "ChatsListChanged"
    /\ \A o \in DOMAIN saved_orders : Count(evs, InitialOrder(o, saved_orders[o])) = 1

\* C22: the step of a successful order fetch leaves the OrderBaseline equal to the
\* fetched map; an order of the old baseline that the fetched map lacks is gone
\* from the baseline and no event of the step is about it.
C22_BaselineReplacedWholesale ==
    [][(pc = "orders" /\ pc' = "sleep" /\ snap'.ok) =>
          /\ saved_orders' = snap'.orders
          /\ \A o \in DOMAIN saved_orders \ DOMAIN snap'.orders :
                /\ o \notin DOMAIN saved_orders'
                /\ \A i \in DOMAIN Published : Published[i].order # o]_vars

\* C22 witness: the baseline held both orders; the fetch returned only the second,
\* with another status: the baseline holds that order alone, the status change
\* was sent and nothing was sent about the first.
C22_Witness ==
    /\ pc = "sleep"
    /\ snap.ok
    /\ prev.ok
    /\ DOMAIN prev.orders = {"O1", "O2"}
    /\ DOMAIN snap.orders = {"O2"}
    /\ saved_orders = snap.orders
    /\ snap.orders["O2"] # prev.orders["O2"]
    /\ Count(evs, OrderStatusChanged("O2", snap.orders["O2"])) = 1
    /\ \A i \in DOMAIN evs : evs[i].order # "O1"

\* C23: the step of a failed order fetch sends nothing and leaves the
\* OrderBaseline as it was, with the first-cycle flag cleared; the events of that
\* cycle hold no InitialOrder, NewOrder or OrderStatusChanged, and the sleep that
\* follows ends into the next cycle with the baseline still as it was.
C23_OrderFailureKeepsBaseline ==
    /\ [][(pc = "orders" /\ pc' = "sleep" /\ ~snap'.ok) =>
              /\ evs' = evs
              /\ saved_orders' = saved_orders
              /\ ~first']_vars
    /\ []((pc = "sleep" /\ ~snap.ok) =>
              /\ \A i \in DOMAIN evs : evs[i].type \notin OrderDiffTypes
              /\ ~first
              /\ ENABLED Sleep)
    /\ [][(pc = "sleep" /\ ~snap.ok /\ pc' \notin {"sleep", "load"}) =>
              /\ pc' = "phaseA"
              /\ saved_orders' = saved_orders
              /\ ~first']_vars

\* C23 witness: the order fetch of a later cycle failed with both orders in the
\* baseline; the baseline still holds them and the flag is cleared.
C23_Witness ==
    /\ pc = "sleep"
    /\ ~snap.ok
    /\ DOMAIN saved_orders = {"O1", "O2"}
    /\ \E i \in DOMAIN evs : evs[i].type = "ChatsListChanged"
    /\ \A i \in DOMAIN evs : evs[i].type \notin OrderDiffTypes
    /\ ~first

\* C24: the first-cycle flag is set when a run starts and stays set through the
\* failed multiplex fetches and up to the order step of the first cycle whose
\* multiplex fetch succeeded; that order step clears it, whether the history fetch
\* or the order fetch of the cycle failed or not; only a new run sets it again;
\* InitialChat is sent only by the multiplex step of a cycle that has the flag
\* set, so no two cycles of a run send InitialChat.
C24_FirstFlagClearedOnce ==
    /\ [](pc = "load" => first)
    /\ [][(first /\ ~first') => (pc = "orders" /\ pc' = "sleep")]_vars
    /\ [][(pc = "orders" /\ pc' = "sleep") => ~first']_vars
    /\ [][(pc = "phaseA" /\ pc' = "retry") => first' = first]_vars
    /\ [][(~first /\ first') => pc' = "load"]_vars
    /\ [][("InitialChat" \in TypesOf(Published)) => (first /\ pc = "phaseA")]_vars
    /\ [](\A i, j \in DOMAIN log :
              (log[i].type = "InitialChat" /\ log[j].type = "InitialChat")
                  => log[i].cycle = log[j].cycle)

\* C24 witness: the multiplex fetch of the first attempt failed, the second
\* succeeded and sent InitialChat, the history fetch and the order fetch of that
\* cycle failed, and the flag is cleared.
C24_Witness ==
    /\ pc = "sleep"
    /\ ~first
    /\ ~snap.ok
    /\ changed_chats # <<>>
    /\ last_messages_ids = EmptyMap
    /\ cycle = 2
    /\ \E i \in DOMAIN log : log[i].type = "InitialChat" /\ log[i].cycle = 2

\* C25: for each of the two subscriptions the stored tag, which the next
\* multiplex request sends, is the latest tag a multiplex response of the run
\* carried for that subscription, or the startup token when none did, a
\* chat_bookmarks object without payload counting like any other; the stored tags
\* change only in the step that parses a multiplex response (or when a new run
\* starts), so never in a history step.
C25_TagsFollowTheResponses ==
    /\ [](/\ last_order_event_tag = echoed.order
          /\ last_msg_event_tag = echoed.msg)
    /\ [][(last_order_event_tag' # last_order_event_tag
              \/ last_msg_event_tag' # last_msg_event_tag)
             => \/ pc = "phaseA" /\ pc' \in {"history", "orders"}
                \/ pc' = "load"]_vars

\* C25 witness: on a later cycle the request is about to go out with the tags
\* the responses carried, "a" for the order counters and "b" for the chat
\* bookmarks, the latter from an object that had no payload.
C25_Witness ==
    /\ pc = "phaseA"
    /\ ~first
    /\ echoed.bare
    /\ last_order_event_tag = "a"
    /\ last_msg_event_tag = "b"

\* C26: a twin run that starts with other startup tokens and is fed, cycle by
\* cycle, the same responses carrying other tags (or none where this run's carry
\* one) has sent the same events and reached the same history-fetch set and
\* ChatBaseline as this run at every multiplex step; the steps after it (history,
\* save, order fetch) read no tag, so OrderBaseline and MessageCursor are the same
\* too.
C26_TagsDoNotDecideEvents == twin.same

\* C26 witness: on a later cycle this run and its twin hold different tags for
\* both subscriptions, the response brought the counters and a chat with a new
\* message, and both runs sent the same events.
C26_Witness ==
    /\ pc = "history"
    /\ ~first
    /\ twin.same
    /\ last_msg_event_tag = "b"
    /\ twin.msg_tag \notin {"b", "random2"}
    /\ last_order_event_tag # twin.order_tag
    /\ last_order_event_tag # "random"
    /\ \E i \in DOMAIN evs : evs[i].type = "LastChatMessageChanged"
    /\ \E i \in DOMAIN evs : evs[i].type = "OrdersListChanged"

\* C27: as long as no bootstrap of the account has succeeded, identity, CSRF
\* token and user name are unset, whatever bootstraps failed, the poller has not
\* started (no cursor load, no event), start_polling_loop and create_sender can
\* be called and return AccountNotInitiated, and such a call changes nothing
\* else; the polling loop starts only on an account that has identity and token.
C27_NoLoopBeforeBootstrap ==
    /\ [](~acct.booted =>
              /\ acct.id = "none" /\ acct.csrf_token = "none" /\ acct.username = "none"
              /\ pc = "idle"
              /\ evs = <<>> /\ loaded = EmptyMap /\ bus.held = <<>>
              /\ ENABLED StartPollingLoopErr
              /\ ENABLED CreateSender
              /\ ~ENABLED StartPollingLoopOk)
    /\ [][(~acct.booted /\ ~acct'.booted) =>
              /\ UNCHANGED <<prog, seen, hist, bus, obs>>
              /\ acct'.result \in {acct.result, "AccountNotInitiated"} \cup BootstrapErrors]_vars
    /\ [][(pc = "idle" /\ pc' # "idle") => (acct.id = "some" /\ acct.csrf_token = "some")]_vars

\* C27 witness: a bootstrap got a response with a session cookie and failed; the
\* call made after it returned AccountNotInitiated and nothing has started.
C27_Witness ==
    /\ ~acct.booted
    /\ acct.phpsessid = "some"
    /\ acct.result = "AccountNotInitiated"
    /\ pc = "idle"

\* a later cycle begins with the ChatBaseline of chat 1 at n, the id of the chat's
\* latest message: a cycle that was not the first has seen the id rise to n
RiseDetected(n) ==
    /\ pc = "phaseA"
    /\ ~first
    /\ srv[1] = n
    /\ 1 \in DOMAIN last_messages
    /\ last_messages[1] = n

\* a history response that arrived holds all the messages of the chat
HistoriesComplete ==
    got.ok => (1 \in DOMAIN got.lists /\ Range(got.lists[1]) = 1..srv[1])

\* the chat stays as it is, the run goes on, and every call returns: the multiplex
\* response lists the chat with n, the history fetch and the order fetch succeed
CallsSucceed(n) ==
    /\ srv[1] = n
    /\ pc \notin {"retry", "load"}
    /\ pc \in {"history", "persist", "orders", "sleep"}
           => (1 \in DOMAIN snap.chats /\ snap.chats[1] = n)
    /\ (pc \in {"persist", "orders", "sleep"} /\ changed_chats # <<>>) => got.ok
    /\ pc = "sleep" => snap.ok

\* no message of chat 1 above the cursor is left unsent
NothingLeftAbove(n) ==
    \A m \in 1..n :
        (1 \notin DOMAIN last_messages_ids \/ m > last_messages_ids[1]) => m \in sent[1]

\* C28: with history responses that hold all the messages of the chat: once a
\* cycle that was not the first has seen the latest message id of a chat rise,
\* if from the next cycle on the chat stays the same and every call succeeds,
\* every message of the chat above the cursor is sent as NewMessage in the end,
\* whether the history fetch of the cycle that saw the rise succeeded or not.
C28_DetectedMessagesGetPublished ==
    []HistoriesComplete =>
        \A n \in 1..MaxMsg :
            [](RiseDetected(n) => ([]CallsSucceed(n) => <>NothingLeftAbove(n)))

\* C29: after the startup load, no step of a run lowers the cursor of a chat or
\* takes the cursor of a chat away, whatever the history responses hold.
C29_CursorNeverGoesBack ==
    [][(pc # "load" /\ pc' # "load") =>
          \A c \in DOMAIN last_messages_ids :
              /\ c \in DOMAIN last_messages_ids'
              /\ last_messages_ids'[c] >= last_messages_ids[c]]_vars

\* C29 witness: a history response arrived that holds only messages below the
\* cursor of the chat, and the cursor is where it was.
C29_Witness ==
    /\ pc = "orders"
    /\ got.ok
    /\ 1 \in DOMAIN got.lists
    /\ got.lists[1] # <<>>
    /\ 1 \in DOMAIN last_messages_ids
    /\ \A i \in DOMAIN got.lists[1] : got.lists[1][i] < last_messages_ids[1]

\* C30: over cycles, saves and restarts, a restart whose load failed included, no
\* step lowers the value the store holds for a chat or removes a chat from the
\* store (looked at here for history responses that hold all the messages of
\* their chats).
C30_StoreNeverGoesBack ==
    [][(got'.ok => \A c \in DOMAIN got'.lists : Range(got'.lists[c]) = 1..srv[c]) =>
          \A c \in DOMAIN store :
              /\ c \in DOMAIN store'
              /\ store'[c] >= store[c]]_vars

====
